---- MODULE Spec2Model ----
(***************************************************************************)
(* Model of sample.py: the response extractor and fix_llm_query (the query *)
(* repairer), retrieve_and_present_data and the interactive loop of main.  *)
(*                                                                         *)
(* Text is a sequence of one-character strings.  A Python value is a       *)
(* record [t, s, kv] whose three fields are always present:                *)
(*   t  = "str" | "num" | "dict" | "list" | "tuple" | "set" | "bool" |     *)
(*        "none" | "obj" (a builtin function or type)                      *)
(*   s  = the characters of a str, the digits of a num, the name of a      *)
(*        bool or of an object                                             *)
(*   kv = the <<key, value>> pairs of a dict in insertion order, or the    *)
(*        <<item>> tuples of a list, tuple or set                          *)
(***************************************************************************)
EXTENDS Integers, Sequences, FiniteSets, TLC

(***************************************************************************)
(* Characters                                                              *)
(***************************************************************************)
NL == "\n"
Whitespace == {" ", NL}
Digits == {"0", "1", "2", "3", "4", "5", "6", "7", "8", "9"}
Letters ==
  {"a", "b", "c", "d", "e", "f", "g", "h", "i", "j", "k", "l", "m", "n",
   "o", "p", "q", "r", "s", "t", "u", "v", "w", "x", "y", "z", "_",
   "A", "E", "F", "I", "N", "S", "T", "V", "X"}
\* \w of the re module
WordChars == Letters \cup Digits

Min(S) == CHOOSE m \in S : \A o \in S : m <= o
Max(S) == CHOOSE m \in S : \A o \in S : m >= o

\* s[i..] starts with the text w
StartsWithAt(s, i, w) ==
  /\ i >= 1
  /\ i + Len(w) - 1 <= Len(s)
  /\ SubSeq(s, i, i + Len(w) - 1) = w

\* index of the first character at or after i that is not whitespace
\* (Len(s) + 1 when there is none): where a greedy \s* stops
RECURSIVE SkipWs(_, _)
SkipWs(s, i) ==
  IF i <= Len(s) /\ s[i] \in Whitespace THEN SkipWs(s, i + 1) ELSE i

\* index of the first character at or after i that is not a word character
RECURSIVE SkipWord(_, _)
SkipWord(s, i) ==
  IF i <= Len(s) /\ s[i] \in WordChars THEN SkipWord(s, i + 1) ELSE i

\* index after an optional quote at i: ["\']?
SkipQuote(s, i) ==
  IF i <= Len(s) /\ s[i] \in {"\"", "'"} THEN i + 1 ELSE i

\* str.strip()
RECURSIVE rstrip(_)
rstrip(s) ==
  IF Len(s) > 0 /\ s[Len(s)] \in Whitespace
  THEN rstrip(SubSeq(s, 1, Len(s) - 1)) ELSE s

strip(s) == LET i == SkipWs(s, 1) IN rstrip(SubSeq(s, i, Len(s)))

\* indices of a character in a text
IndicesOf(s, c) == {i \in 1..Len(s) : s[i] = c}

(***************************************************************************)
(* The extractor of generate_mongodb_query                                 *)
(***************************************************************************)
\* the backtick cannot be written in a string of this language
Backtick == "BACKTICK"
Fence == <<Backtick, Backtick, Backtick>>
JsonTag == <<"j", "s", "o", "n">>

\* first index c >= i at which a fence starts, 0 when there is none
FirstFenceFrom(s, i) ==
  LET C == {c \in i..Len(s) : StartsWithAt(s, c, Fence)}
  IN IF C = {} THEN 0 ELSE Min(C)

\* The starts g that the lazy group and the closing fence can take after a \s* that begins at b
FenceGroupStarts(s, b) ==
  {g \in b..SkipWs(s, b) : FirstFenceFrom(s, g + 1) # 0}

\* The fence pattern of line 88 tried at index p: the start of group 1, or 0.
\* The tag is tried before its absence, the longest \s* before shorter ones.
FenceGroupStartAt(s, p) ==
  IF ~StartsWithAt(s, p, Fence) THEN 0
  ELSE LET tagged == IF StartsWithAt(s, p + 3, JsonTag)
                     THEN FenceGroupStarts(s, p + 7) ELSE {}
           plain == FenceGroupStarts(s, p + 3)
       IN IF tagged # {} THEN Max(tagged)
          ELSE IF plain # {} THEN Max(plain)
          ELSE 0

\* line 88: re.search of an opening fence, an optional json tag, \s*, a lazy
\* non-empty group and a closing fence
FenceSearch(s) ==
  LET P == {p \in 1..Len(s) : FenceGroupStartAt(s, p) # 0}
  IN IF P = {} THEN [found |-> FALSE, group |-> <<>>]
     ELSE LET g == FenceGroupStartAt(s, Min(P))
          IN [found |-> TRUE,
              group |-> SubSeq(s, g, FirstFenceFrom(s, g + 1) - 1)]

\* re.search(r"(\{[\s\S]+\})", raw_response): the leftmost '{' that has a
\* '}' at least two places later, up to the last '}'
BraceSearch(s) ==
  LET P == {p \in IndicesOf(s, "{") :
              \E c \in IndicesOf(s, "}") : c >= p + 2}
  IN IF P = {} THEN [found |-> FALSE, group |-> <<>>]
     ELSE [found |-> TRUE,
           group |-> SubSeq(s, Min(P), Max(IndicesOf(s, "}")))]

\* lines 87-94: the candidate fragment of a stripped response
Extract(s) ==
  IF FenceSearch(s).found THEN FenceSearch(s).group
  ELSE IF BraceSearch(s).found THEN BraceSearch(s).group
  ELSE s

(***************************************************************************)
(* The text repairs of fix_llm_query                                       *)
(***************************************************************************)
FindWord == <<"f", "i", "n", "d">>

\* line 50: re.match(r'^\s*["\']?find["\']?\s*:\s*({.*})\s*$', ..., DOTALL).
\* Group 1 runs from the '{' after the colon to the last '}' of the text,
\* and only whitespace may follow it.
UnwrapMatch(s) ==
  LET i1 == SkipWs(s, 1)
      i2 == SkipQuote(s, i1)
      i3 == SkipQuote(s, i2 + 4)
      i4 == SkipWs(s, i3)
      i5 == SkipWs(s, i4 + 1)
      closes == IndicesOf(s, "}")
      ok == /\ StartsWithAt(s, i2, FindWord)
            /\ i4 <= Len(s) /\ s[i4] = ":"
            /\ i5 <= Len(s) /\ s[i5] = "{"
            /\ closes # {}
            /\ Max(closes) > i5
            /\ SkipWs(s, Max(closes) + 1) = Len(s) + 1
  IN IF ok THEN [found |-> TRUE, group |-> SubSeq(s, i5, Max(closes))]
     ELSE [found |-> FALSE, group |-> <<>>]

\* lines 50-52
Unwrap(s) == IF UnwrapMatch(s).found THEN UnwrapMatch(s).group ELSE s

\* line 54: the pattern (\{)\s*["\']?(\$\w+)["\']?\s*,\s*([^\}]+)\} tried at
\* index p.  Group 2 is s[b..c-1]; group 3 is s[g..cl-1], where \s* gives one
\* whitespace back when nothing else stands before the '}'.
CommaMatchAt(s, p) ==
  LET a == SkipWs(s, p + 1)
      b == SkipQuote(s, a)
      c == SkipWord(s, b + 1)
      d == SkipQuote(s, c)
      e == SkipWs(s, d)
      f == SkipWs(s, e + 1)
      closes == {k \in IndicesOf(s, "}") : k >= e + 1}
      cl == IF closes = {} THEN 0 ELSE Min(closes)
      g == IF f < cl THEN f ELSE f - 1
      ok == /\ p <= Len(s) /\ s[p] = "{"
            /\ b <= Len(s) /\ s[b] = "$"
            /\ c > b + 1
            /\ e <= Len(s) /\ s[e] = ","
            /\ cl # 0
            /\ g >= e + 1 /\ g < cl
  IN [found |-> ok, b |-> b, c |-> c, g |-> g, cl |-> cl]

\* line 54: re.sub(..., r'\1"\2":\3}', raw_query) from index p on
RECURSIVE CommaFixFrom(_, _)
CommaFixFrom(s, p) ==
  IF p > Len(s) THEN <<>>
  ELSE LET m == CommaMatchAt(s, p)
       IN IF m.found
          THEN <<"{", "\"">> \o SubSeq(s, m.b, m.c - 1) \o <<"\"", ":">>
               \o SubSeq(s, m.g, m.cl - 1) \o <<"}">>
               \o CommaFixFrom(s, m.cl + 1)
          ELSE <<s[p]>> \o CommaFixFrom(s, p + 1)

CommaFix(s) == CommaFixFrom(s, 1)

\* line 56: re.sub(r',(\s*[}\]])', r'\1', raw_query) from index p on
RECURSIVE TrailingCommaFrom(_, _)
TrailingCommaFrom(s, p) ==
  IF p > Len(s) THEN <<>>
  ELSE LET q == SkipWs(s, p + 1)
       IN IF s[p] = "," /\ q <= Len(s) /\ s[q] \in {"}", "]"}
          THEN SubSeq(s, p + 1, q) \o TrailingCommaFrom(s, q + 1)
          ELSE <<s[p]>> \o TrailingCommaFrom(s, p + 1)

TrailingCommaStrip(s) == TrailingCommaFrom(s, 1)

\* line 58: raw_query.replace('\n', ' ')
Flatten(s) == [i \in 1..Len(s) |-> IF s[i] = NL THEN " " ELSE s[i]]

(***************************************************************************)
(* Python values                                                           *)
(***************************************************************************)
Str(s) == [t |-> "str", s |-> s, kv |-> <<>>]
Num(s) == [t |-> "num", s |-> s, kv |-> <<>>]
Bool(name) == [t |-> "bool", s |-> name, kv |-> <<>>]
None == [t |-> "none", s |-> <<>>, kv |-> <<>>]
Obj(name) == [t |-> "obj", s |-> name, kv |-> <<>>]
Dict(kv) == [t |-> "dict", s |-> <<>>, kv |-> kv]
List(items) == [t |-> "list", s |-> <<>>, kv |-> items]
Tuple(items) == [t |-> "tuple", s |-> <<>>, kv |-> items]
SetOf(items) == [t |-> "set", s |-> <<>>, kv |-> items]

\* isinstance(v, dict), isinstance(v, str)
IsDict(v) == v.t = "dict"
IsStr(v) == v.t = "str"

TrueName == <<"T", "r", "u", "e">>
FalseName == <<"F", "a", "l", "s", "e">>
NoneName == <<"N", "o", "n", "e">>

\* bool(v): the truth value the if statements of main and of
\* retrieve_and_present_data test
Truthy(v) ==
  CASE v.t = "none" -> FALSE
    [] v.t = "bool" -> v.s = TrueName
    [] v.t = "num" -> \E i \in 1..Len(v.s) : v.s[i] \in Digits \ {"0"}
    [] v.t = "str" -> Len(v.s) > 0
    [] v.t = "obj" -> TRUE
    [] OTHER -> Len(v.kv) > 0

\* key in d
HasKey(d, k) == \E i \in 1..Len(d.kv) : d.kv[i][1] = k
\* d[key], for a key of d
Get(d, k) == d.kv[CHOOSE i \in 1..Len(d.kv) : d.kv[i][1] = k][2]
\* the pairs of a dict after d[k] = v: a key keeps its place
Put(kv, k, v) ==
  IF \E i \in 1..Len(kv) : kv[i][1] = k
  THEN [i \in 1..Len(kv) |-> IF kv[i][1] = k THEN <<k, v>> ELSE kv[i]]
  ELSE Append(kv, <<k, v>>)
\* the items of a set after add(v)
Add(items, v) ==
  IF \E i \in 1..Len(items) : items[i] = <<v>> THEN items
  ELSE Append(items, <<v>>)
\* hash(v) raises TypeError for these
RECURSIVE Unhashable(_)
Unhashable(v) ==
  \/ v.t \in {"dict", "list", "set"}
  \/ v.t = "tuple" /\ \E i \in 1..Len(v.kv) : Unhashable(v.kv[i][1])

(***************************************************************************)
(* json.loads and eval.  Both are modelled on the fragment of their        *)
(* grammars that the texts of this model are written in: dict, set, list   *)
(* and tuple displays, quoted strings without escapes, decimal numbers     *)
(* with an optional fraction, the named constants, names, and calls with   *)
(* positional and keyword arguments.  Other syntax (operators, subscripts, *)
(* attributes, exponents, string prefixes) is rejected by the model.       *)
(*                                                                         *)
(* A parse yields [st, v, p, tc]: st = "ok" with the value v and the index *)
(* p after it (tc: a trailing comma closed the items); "syn" when the text *)
(* is rejected before anything is evaluated; "err" when evaluation raises  *)
(* an Exception; "exit" when evaluation raises SystemExit.                 *)
(***************************************************************************)
Res(st, v, p) == [st |-> st, v |-> v, p |-> p, tc |-> FALSE]
Syn == Res("syn", None, 0)

\* the outcome of evaluating a, then b: compilation fails as a whole, and
\* otherwise the first exception raised wins
Comb(a, b) ==
  IF a = "syn" \/ b = "syn" THEN "syn" ELSE IF a # "ok" THEN a ELSE b

At(s, i) == IF i >= 1 /\ i <= Len(s) THEN s[i] ELSE "EOF"

RECURSIVE SkipDigits(_, _)
SkipDigits(s, i) ==
  IF At(s, i) \in Digits THEN SkipDigits(s, i + 1) ELSE i

Quotes == {"\"", "'"}

\* the keywords of Python that are not constants
Keywords ==
  {<<"a", "n", "d">>, <<"a", "s">>, <<"a", "s", "s", "e", "r", "t">>,
   <<"a", "s", "y", "n", "c">>, <<"a", "w", "a", "i", "t">>,
   <<"b", "r", "e", "a", "k">>, <<"c", "l", "a", "s", "s">>,
   <<"c", "o", "n", "t", "i", "n", "u", "e">>, <<"d", "e", "f">>,
   <<"d", "e", "l">>, <<"e", "l", "i", "f">>, <<"e", "l", "s", "e">>,
   <<"e", "x", "c", "e", "p", "t">>, <<"f", "i", "n", "a", "l", "l", "y">>,
   <<"f", "o", "r">>, <<"f", "r", "o", "m">>,
   <<"g", "l", "o", "b", "a", "l">>, <<"i", "f">>,
   <<"i", "m", "p", "o", "r", "t">>, <<"i", "n">>, <<"i", "s">>,
   <<"l", "a", "m", "b", "d", "a">>,
   <<"n", "o", "n", "l", "o", "c", "a", "l">>, <<"n", "o", "t">>,
   <<"o", "r">>, <<"p", "a", "s", "s">>, <<"r", "a", "i", "s", "e">>,
   <<"r", "e", "t", "u", "r", "n">>, <<"t", "r", "y">>,
   <<"w", "h", "i", "l", "e">>, <<"w", "i", "t", "h">>,
   <<"y", "i", "e", "l", "d">>}

DictName == <<"d", "i", "c", "t">>
ExitName == <<"e", "x", "i", "t">>
CodeName == <<"c", "o", "d", "e">>
\* The names the evaluated texts can resolve.  eval(raw_query, {}, {})
\* inserts __builtins__ into the empty globals, so the names of the builtins
\* module resolve: dict, and exit which site.py adds.
Builtins == {DictName, ExitName}

\* a string literal whose opening quote is at i
StringAt(s, i) ==
  LET C == {k \in (i + 1)..Len(s) : s[k] = s[i]}
  IN IF C = {} THEN Syn
     ELSE IF \E k \in (i + 1)..(Min(C) - 1) : s[k] = NL THEN Syn
     ELSE Res("ok", Str(SubSeq(s, i + 1, Min(C) - 1)), Min(C) + 1)

\* adjacent string literals of Python are concatenated
RECURSIVE StringsAt(_, _)
StringsAt(s, i) ==
  LET r == StringAt(s, i)
      j == SkipWs(s, r.p)
  IN IF r.st = "syn" THEN Syn
     ELSE IF At(s, j) \in Quotes
     THEN LET r2 == StringsAt(s, j)
          IN IF r2.st = "syn" THEN Syn
             ELSE Res("ok", Str(r.v.s \o r2.v.s), r2.p)
     ELSE r

\* a number that starts at i.  JSON allows no leading zero and needs digits
\* on both sides of the point.
NumberAt(m, s, i) ==
  LET e == SkipDigits(s, i)
      int == SubSeq(s, i, e - 1)
      frac == At(s, e) = "." /\ At(s, e + 1) \in Digits
      dot == m = "py" /\ At(s, e) = "." /\ Len(int) > 0
      e2 == IF frac THEN SkipDigits(s, e + 1) ELSE IF dot THEN e + 1 ELSE e
      zeros == \A k \in 1..Len(int) : int[k] = "0"
      leadOk == IF m = "json"
                THEN Len(int) = 1 \/ (Len(int) > 1 /\ int[1] # "0")
                ELSE \/ (Len(int) = 0 /\ frac)
                     \/ (Len(int) > 0 /\ (int[1] # "0" \/ zeros \/ e2 > e))
  IN IF ~leadOk \/ At(s, e2) \in WordChars \cup {"."} THEN Syn
     ELSE Res("ok", Num(SubSeq(s, i, e2 - 1)), e2)

\* a word that starts at i: a constant or, in Python, a name
WordAt(m, s, i) ==
  LET e == SkipWord(s, i)
      name == SubSeq(s, i, e - 1)
  IN IF m = "json"
     THEN CASE name = <<"t", "r", "u", "e">> -> Res("ok", Bool(TrueName), e)
            [] name = <<"f", "a", "l", "s", "e">> ->
                 Res("ok", Bool(FalseName), e)
            [] name = <<"n", "u", "l", "l">> -> Res("ok", None, e)
            [] OTHER -> Syn
     ELSE CASE name \in {TrueName, FalseName} -> Res("ok", Bool(name), e)
            [] name = NoneName -> Res("ok", None, e)
            [] name \in Keywords -> Syn
            [] name \in Builtins -> Res("ok", Obj(name), e)
            [] OTHER -> Res("err", None, e)

\* the dict built from evaluated <<key, value>> pairs, left to right
RECURSIVE BuildDict(_, _)
BuildDict(pairs, kv) ==
  IF pairs = <<>> THEN kv
  ELSE BuildDict(Tail(pairs), Put(kv, pairs[1][1], pairs[1][2]))

\* the set built from evaluated items, left to right
RECURSIVE BuildSet(_, _)
BuildSet(items, acc) ==
  IF items = <<>> THEN acc
  ELSE BuildSet(Tail(items), Add(acc, items[1][1]))

\* dict(**kw)
KwPairs(kw) == [i \in 1..Len(kw) |-> <<Str(kw[i][1]), kw[i][2]>>]

\* the <<key, value>> pair an element of dict(iterable) gives
AsPair(x) ==
  IF x.t = "str" THEN <<Str(<<x.s[1]>>), Str(<<x.s[2]>>)>>
  ELSE <<x.kv[1][1], x.kv[2][1]>>
\* dict(v) accepts v: a str, list, tuple or set whose elements are strings,
\* lists or tuples of length two with a hashable first element
IsPairs(v) ==
  \/ v.t = "str" /\ v.s = <<>>
  \/ /\ v.t \in {"list", "tuple", "set"}
     /\ \A i \in 1..Len(v.kv) :
          LET x == v.kv[i][1]
          IN \/ x.t = "str" /\ Len(x.s) = 2
             \/ /\ x.t \in {"list", "tuple"}
                /\ Len(x.kv) = 2
                /\ ~Unhashable(x.kv[1][1])
AsPairs(v) == [i \in 1..Len(v.kv) |-> AsPair(v.kv[i][1])]

\* The call callee(*a.pos, **a.kw), where r is the parse of the callee and a
\* the parse of the arguments.  dict and exit are the callables.
Apply(r, a) ==
  LET st == Comb(r.st, a.st) IN
  IF st # "ok" THEN Res(st, None, a.p)
  ELSE IF r.v = Obj(DictName)
  THEN IF a.pos = <<>> THEN Res("ok", Dict(BuildDict(KwPairs(a.kw), <<>>)), a.p)
       ELSE IF Len(a.pos) = 1 /\ IsDict(a.pos[1][1])
       THEN Res("ok", Dict(BuildDict(KwPairs(a.kw), a.pos[1][1].kv)), a.p)
       ELSE IF Len(a.pos) = 1 /\ IsPairs(a.pos[1][1])
       THEN Res("ok", Dict(BuildDict(KwPairs(a.kw),
                           BuildDict(AsPairs(a.pos[1][1]), <<>>))), a.p)
       ELSE Res("err", None, a.p)
  ELSE IF r.v = Obj(ExitName)
  THEN IF \/ (Len(a.pos) <= 1 /\ a.kw = <<>>)
          \/ (a.pos = <<>> /\ Len(a.kw) = 1 /\ a.kw[1][1] = CodeName)
       THEN Res("exit", None, a.p)
       ELSE Res("err", None, a.p)
  ELSE Res("err", None, a.p)

\* The parser is written in stages: each operator takes what the stages
\* before it have parsed as arguments.
RECURSIVE ValueAt(_, _, _)
RECURSIVE ItemsAt(_, _, _, _, _, _)
RECURSIVE PairsAt(_, _, _, _, _)
RECURSIVE PostfixAt(_, _)
RECURSIVE ArgsAt(_, _, _, _, _)

Items(st, acc, p, tc) == [st |-> st, v |-> List(acc), p |-> p, tc |-> tc]

\* after a comma at the end of the items: the closer, or the next item
ItemsTail(m, s, closer, acc, st, k) ==
  IF At(s, k) # closer THEN ItemsAt(m, s, k, closer, acc, st)
  ELSE IF m = "py" THEN Items(st, acc, k + 1, TRUE)
  ELSE Syn

\* after an item: the closer or a comma
ItemsSep(m, s, closer, acc, st, k) ==
  IF At(s, k) = closer THEN Items(st, acc, k + 1, FALSE)
  ELSE IF At(s, k) = "," THEN ItemsTail(m, s, closer, acc, st, SkipWs(s, k + 1))
  ELSE Syn

\* the items, given the parse r of the next one
ItemsNext(m, s, closer, acc, st, r) ==
  IF r.st = "syn" THEN Syn
  ELSE ItemsSep(m, s, closer, Append(acc, <<r.v>>), Comb(st, r.st),
                SkipWs(s, r.p))

\* comma-separated values from i up to the closer ("EOF": the end of the
\* text); only Python allows a comma before the closer
ItemsAt(m, s, i, closer, acc, st) ==
  ItemsNext(m, s, closer, acc, st, ValueAt(m, s, i))

\* The dict of the evaluated pairs.  The keys are hashed when the dict is
\* built, after every key and value has been evaluated.
Built(acc, st, p) ==
  IF st # "ok" THEN Res(st, None, p)
  ELSE IF \E j \in 1..Len(acc) : Unhashable(acc[j][1])
  THEN Res("err", None, p)
  ELSE Res("ok", Dict(BuildDict(acc, <<>>)), p)

\* after a comma at the end of the pairs: the brace, or the next pair
PairsTail(m, s, acc, st, n) ==
  IF At(s, n) # "}" THEN PairsAt(m, s, n, acc, st)
  ELSE IF m = "py" THEN Built(acc, st, n + 1)
  ELSE Syn

\* after a pair: the closing brace or a comma
PairsSep(m, s, acc, st, n) ==
  IF At(s, n) = "}" THEN Built(acc, st, n + 1)
  ELSE IF At(s, n) = "," THEN PairsTail(m, s, acc, st, SkipWs(s, n + 1))
  ELSE Syn

\* the pairs, given the parses of the next key and of its value
PairsVal(m, s, acc, st, key, val) ==
  IF val.st = "syn" THEN Syn
  ELSE PairsSep(m, s, Append(acc, <<key.v, val.v>>),
                Comb(Comb(st, key.st), val.st), SkipWs(s, val.p))

\* the pairs, given the parse of the next key and the index k after it
PairsColon(m, s, acc, st, key, k) ==
  IF At(s, k) # ":" THEN Syn
  ELSE PairsVal(m, s, acc, st, key, ValueAt(m, s, SkipWs(s, k + 1)))

\* the pairs, given the parse of the next key
PairsKey(m, s, acc, st, key) ==
  IF key.st = "syn" THEN Syn
  ELSE PairsColon(m, s, acc, st, key, SkipWs(s, key.p))

\* key: value pairs from i up to the closing brace; a key of JSON is a
\* string literal
PairsAt(m, s, i, acc, st) ==
  PairsKey(m, s, acc, st,
           IF m = "py" THEN ValueAt(m, s, i)
           ELSE IF At(s, i) = "\"" THEN StringAt(s, i)
           ELSE Syn)

NoArgs == [st |-> "syn", pos |-> <<>>, kw |-> <<>>, p |-> 0]

\* after an argument: the closing parenthesis or a comma
ArgsSep(s, pos, kw, st, n) ==
  IF At(s, n) = ")" THEN [st |-> st, pos |-> pos, kw |-> kw, p |-> n + 1]
  ELSE IF At(s, n) = "," THEN ArgsAt(s, SkipWs(s, n + 1), pos, kw, st)
  ELSE NoArgs

\* a positional argument, given its parse; none may follow a keyword
ArgsPos(s, pos, kw, st, val) ==
  IF kw # <<>> \/ val.st = "syn" THEN NoArgs
  ELSE ArgsSep(s, Append(pos, <<val.v>>), kw, Comb(st, val.st),
               SkipWs(s, val.p))

\* a keyword argument, given its name and the parse of its value
ArgsKw(s, pos, kw, st, name, val) ==
  IF \/ name \in Keywords \cup {TrueName, FalseName, NoneName}
     \/ \E j \in 1..Len(kw) : kw[j][1] = name
     \/ val.st = "syn"
  THEN NoArgs
  ELSE ArgsSep(s, pos, Append(kw, <<name, val.v>>), Comb(st, val.st),
               SkipWs(s, val.p))

\* an argument that starts at i, given the index e after its first word and
\* the index q of what follows the word
ArgsWord(s, i, pos, kw, st, e, q) ==
  IF At(s, i) \in Letters /\ At(s, q) = "=" /\ At(s, q + 1) # "="
  THEN ArgsKw(s, pos, kw, st, SubSeq(s, i, e - 1),
              ValueAt("py", s, SkipWs(s, q + 1)))
  ELSE ArgsPos(s, pos, kw, st, ValueAt("py", s, i))

\* the arguments of a call from i up to the closing parenthesis: positional
\* values, then name=value pairs
ArgsAt(s, i, pos, kw, st) ==
  IF At(s, i) = ")" THEN [st |-> st, pos |-> pos, kw |-> kw, p |-> i + 1]
  ELSE ArgsWord(s, i, pos, kw, st, SkipWord(s, i), SkipWs(s, SkipWord(s, i)))

\* the call of r with the parsed arguments a, and the calls that follow it
PostfixArgs(s, r, a) ==
  IF a.st = "syn" THEN Syn ELSE PostfixAt(s, Apply(r, a))

\* the calls that follow the parsed value r, given the index k after it
PostfixOpen(s, r, k) ==
  IF At(s, k) # "(" THEN r
  ELSE PostfixArgs(s, r, ArgsAt(s, SkipWs(s, k + 1), <<>>, <<>>, "ok"))

\* calls that follow the parsed value r
PostfixAt(s, r) ==
  IF r.st = "syn" THEN r ELSE PostfixOpen(s, r, SkipWs(s, r.p))

\* the set of the evaluated items; its elements are hashed when it is built
SetBuilt(items) ==
  IF items.st = "syn" THEN Syn
  ELSE IF items.st # "ok" THEN Res(items.st, None, items.p)
  ELSE IF \E x \in 1..Len(items.v.kv) : Unhashable(items.v.kv[x][1])
  THEN Res("err", None, items.p)
  ELSE Res("ok", SetOf(BuildSet(items.v.kv, <<>>)), items.p)

\* a display in braces, given the parse of its first value: pairs when a
\* colon follows it, and in Python otherwise the items of a set
BraceFirst(m, s, first, k) ==
  IF first.st = "syn" THEN Syn
  ELSE IF At(s, k) = ":" THEN PairsColon(m, s, <<>>, "ok", first, k)
  ELSE IF m = "py" THEN SetBuilt(ItemsNext(m, s, "}", <<>>, "ok", first))
  ELSE Syn

BraceKey(m, s, first) == BraceFirst(m, s, first, SkipWs(s, first.p))

\* a display in braces whose first token is at j
BraceAt(m, s, j) ==
  IF At(s, j) = "}" THEN Res("ok", Dict(<<>>), j + 1)
  ELSE BraceKey(m, s, IF m = "py" THEN ValueAt(m, s, j)
                      ELSE IF At(s, j) = "\"" THEN StringAt(s, j)
                      ELSE Syn)

\* a display in brackets whose first token is at j
ListAt(m, s, j) ==
  IF At(s, j) = "]" THEN Res("ok", List(<<>>), j + 1)
  ELSE ItemsAt(m, s, j, "]", <<>>, "ok")

\* a parenthesised value, or a tuple when there is a comma
ParenItems(items) ==
  IF items.st = "syn" THEN Syn
  ELSE IF Len(items.v.kv) = 1 /\ ~items.tc
  THEN Res(items.st, items.v.kv[1][1], items.p)
  ELSE Res(items.st, Tuple(items.v.kv), items.p)

ParenAt(s, j) ==
  IF At(s, j) = ")" THEN Res("ok", Tuple(<<>>), j + 1)
  ELSE ParenItems(ItemsAt("py", s, j, ")", <<>>, "ok"))

\* a display, literal, constant or name that starts with the character c
\* at i
AtomAt(m, s, i, c) ==
  CASE c = "{" -> BraceAt(m, s, SkipWs(s, i + 1))
    [] c = "[" -> ListAt(m, s, SkipWs(s, i + 1))
    [] c = "(" /\ m = "py" -> ParenAt(s, SkipWs(s, i + 1))
    [] c = "\"" -> IF m = "py" THEN StringsAt(s, i) ELSE StringAt(s, i)
    [] c = "'" /\ m = "py" -> StringsAt(s, i)
    [] c \in Digits -> NumberAt(m, s, i)
    [] c = "." /\ m = "py" -> NumberAt(m, s, i)
    [] c \in Letters -> WordAt(m, s, i)
    [] OTHER -> Syn

\* a value that starts at i; in Python it may be called
ValueAt(m, s, i) ==
  IF m = "py" THEN PostfixAt(s, AtomAt(m, s, i, At(s, i)))
  ELSE AtomAt(m, s, i, At(s, i))

\* the value of a parsed JSON text: nothing but whitespace may follow it
JsonValue(s, r) ==
  IF r.st = "ok" /\ SkipWs(s, r.p) > Len(s)
  THEN [ok |-> TRUE, v |-> r.v] ELSE [ok |-> FALSE, v |-> None]

\* line 61: json.loads(raw_query); ok is FALSE when it raises
JsonLoads(s) == JsonValue(s, ValueAt("json", s, SkipWs(s, 1)))

\* the value of the parsed top-level items: one value, or a tuple when
\* there is a comma
EvalItems(r) ==
  IF r.st = "syn" THEN [st |-> "err", v |-> None]
  ELSE IF r.st # "ok" THEN [st |-> r.st, v |-> None]
  ELSE IF Len(r.v.kv) = 1 /\ ~r.tc THEN [st |-> "ok", v |-> r.v.kv[1][1]]
  ELSE [st |-> "ok", v |-> Tuple(r.v.kv)]

\* line 66: eval(raw_query, {}, {}) of a text without line breaks.  st is
\* "ok" with the value, "exit" when SystemExit is raised, and "err" when an
\* Exception is raised (SyntaxError, NameError, TypeError).
Eval(s) ==
  IF SkipWs(s, 1) > Len(s) THEN [st |-> "err", v |-> None]
  ELSE EvalItems(ItemsAt("py", s, SkipWs(s, 1), "EOF", <<>>, "ok"))

(***************************************************************************)
(* Texts: the responses the generator is taken to give                     *)
(***************************************************************************)
\* a fenced block tagged json
FencedJson ==
  <<Backtick, Backtick, Backtick, "j", "s", "o", "n", NL, "{", "\"", "a",
    "\"", ":", "1", "}", NL, Backtick, Backtick, Backtick>>

\* an object and nothing else
PlainObject ==
  <<"{", "\"", "a", "\"", ":", "1", "}">>

\* an object between whitespace
PaddedObject ==
  <<" ", "{", "\"", "a", "\"", ":", "1", "}", NL>>

\* an object inside prose
ObjectInProse ==
  <<"o", "k", " ", "{", "\"", "a", "\"", ":", "1", "}", " ", "x">>

\* two objects: the span runs to the last brace
TwoObjects ==
  <<"{", "\"", "a", "\"", ":", "1", "}", " ", "{", "\"", "b", "\"", ":",
    "1", "}">>

\* the empty filter
EmptyObject ==
  <<"{", "}">>

\* the empty filter after prose
EmptyObjectInProse ==
  <<"a", "l", "l", ":", " ", "{", "}">>

\* no filter at all
Garbage ==
  <<"n", "o", "p", "e">>

\* only whitespace
Blank ==
  <<" ">>

\* a list
ListText ==
  <<"[", "1", "]">>

\* the number zero
ZeroText ==
  <<"0">>

\* a JSON constant
TrueText ==
  <<"t", "r", "u", "e">>

\* a fenced block with a find: prefix
FencedFind ==
  <<Backtick, Backtick, Backtick, "f", "i", "n", "d", ":", "{", "\"", "a",
    "\"", ":", "1", "}", Backtick, Backtick, Backtick>>

\* a quoted find key, a colon and an object
QuotedFind ==
  <<"\"", "f", "i", "n", "d", "\"", " ", ":", " ", "{", "\"", "a", "\"",
    ":", NL, "1", "}", " ">>

\* an object wrapped in a find key
FindKeyObject ==
  <<"{", "\"", "f", "i", "n", "d", "\"", ":", "{", "\"", "a", "\"", ":",
    "1", "}", "}">>

\* an operator followed by a comma
CommaOperator ==
  <<"{", "\"", "p", "\"", ":", "{", "$", "l", "t", ",", "4", "}", "}">>

\* a find: prefix and an operator followed by a comma
FindCommaOperator ==
  <<"f", "i", "n", "d", ":", " ", "{", "\"", "$", "l", "t", "\"", ",", " ",
    "4", ".", "5", "}">>

\* a comma before the closing brace
TrailingComma ==
  <<"{", "\"", "a", "\"", ":", "1", ",", "}">>

\* a Python dict display
SingleQuoted ==
  <<"{", "'", "a", "'", ":", "1", "}">>

\* a line break inside an object
LineBreak ==
  <<"{", "\"", "a", "\"", ":", NL, "1", "}">>

\* a call of the builtin dict
DictCall ==
  <<"d", "i", "c", "t", "(", "a", "=", "1", ")">>

\* a call of the builtin dict without arguments
EmptyDictCall ==
  <<"d", "i", "c", "t", "(", ")">>

\* a call of the builtin exit
ExitCall ==
  <<"e", "x", "i", "t", "(", ")">>

\* an object that mentions an unbound name
NameInObject ==
  <<"{", "\"", "a", "\"", ":", "n", "o", "p", "e", "}">>

\* the raw texts llm.invoke can return
Responses ==
  {FencedJson,
   PlainObject,
   PaddedObject,
   ObjectInProse,
   TwoObjects,
   EmptyObject,
   EmptyObjectInProse,
   Garbage,
   Blank,
   ListText,
   ZeroText,
   TrueText,
   FencedFind,
   QuotedFind,
   FindKeyObject,
   CommaOperator,
   FindCommaOperator,
   TrailingComma,
   SingleQuoted,
   LineBreak,
   DictCall,
   EmptyDictCall,
   ExitCall,
   NameInObject}

ExitWord ==
  <<"e", "x", "i", "t">>

ExitUpper ==
  <<"E", "X", "I", "T">>

Question ==
  <<"c", "h", "e", "a", "p", " ", "i", "t", "e", "m", "s">>

DisplayWord ==
  <<"d", "i", "s", "p", "l", "a", "y">>

SaveWord ==
  <<"s", "a", "v", "e">>

SaveUpper ==
  <<"S", "A", "V", "E">>

CsvWord ==
  <<"c", "s", "v">>

OutFile ==
  <<"o", "u", "t", ".", "c", "s", "v">>

\* str.lower() on the letters of the texts above
LowerChar(c) ==
  CASE c = "A" -> "a" [] c = "E" -> "e" [] c = "F" -> "f" [] c = "I" -> "i"
    [] c = "N" -> "n" [] c = "S" -> "s" [] c = "T" -> "t" [] c = "V" -> "v"
    [] c = "X" -> "x" [] OTHER -> c
Lower(s) == [i \in 1..Len(s) |-> LowerChar(s[i])]

\* what the user types at the question prompt, at the format prompt and at
\* the filename prompt
UserQuestions == {ExitWord, ExitUpper, Question}
UserChoices == {DisplayWord, SaveWord, SaveUpper, CsvWord}
UserFilenames == {<<>>, OutFile}

\* arguments of the direct calls of fix_llm_query and of
\* retrieve_and_present_data
A1 == <<Str(<<"a">>), Num(<<"1">>)>>
FindKey == Str(FindWord)
Mappings ==
  {Dict(<<>>),
   Dict(<<A1>>),
   Dict(<<<<FindKey, Dict(<<A1>>)>>>>),
   Dict(<<<<FindKey, Dict(<<>>)>>, A1>>),
   Dict(<<<<FindKey, Num(<<"1">>)>>>>),
   Dict(<<<<FindKey, Str(PlainObject)>>, A1>>),
   Dict(<<<<FindKey, Dict(<<<<FindKey, Dict(<<A1>>)>>>>)>>>>)}
Arguments ==
  Mappings
  \cup {Str(r) : r \in Responses}
  \cup {Str(Extract(strip(r))) : r \in Responses}
  \cup {None, Num(<<"1">>), List(<<<<Num(<<"1">>)>>>>), Bool(TrueName)}
Formats == {DisplayWord, SaveWord, SaveUpper, CsvWord}
Filenames == {None, Str(<<>>), Str(OutFile)}

\* the number of questions a run of main asks
MaxQuestions == 2

(***************************************************************************)
(* State                                                                   *)
(***************************************************************************)
VARIABLES
  pc,               \* the statement that runs next
  entry,            \* the function that was called: main, retrieve, fix
  questions,        \* questions read by main so far
  user_question,    \* main: the line read at the question prompt
  raw_response,     \* generate_mongodb_query: the stripped response
  cleaned,          \* generate_mongodb_query: the extracted fragment
  fix_arg,          \* fix_llm_query: the argument of the call
  raw_query,        \* fix_llm_query: the working value
  steps,            \* fix_llm_query: the statements that ran, in order
  fix_ret,          \* fix_llm_query: the returned value
  fix_caller,       \* who receives fix_ret: generate, retrieve, top
  generated_query,  \* main: what generate_mongodb_query returned
  output_choice,    \* main: output_choice; retrieve: output_format
  output_filename,  \* None or a str
  mongodb_query,    \* retrieve_and_present_data: the argument
  query,            \* retrieve_and_present_data: the query after line 115
  results,          \* what collection.find gave: unset, rows, empty, raise
  printed,          \* the messages printed for the current question or call
  find_calls,       \* the arguments of collection.find, same scope
  saved,            \* the files written by to_csv, same scope
  logged,           \* the entries appended to the log, same scope
  raised            \* the exception that left the called function, or none

vars ==
  <<pc, entry, questions, user_question, raw_response, cleaned, fix_arg,
    raw_query, steps, fix_ret, fix_caller, generated_query, output_choice,
    output_filename, mongodb_query, query, results, printed, find_calls,
    saved, logged, raised>>

fixVars == <<fix_arg, raw_query, steps, fix_ret, fix_caller>>
genVars == <<raw_response, cleaned, generated_query>>
callVars == <<output_choice, output_filename, mongodb_query>>
retrieveVars == <<query, results>>
effectVars == <<find_calls, saved, logged>>
mainVars == <<entry, questions, user_question>>

\* the messages of the print calls
MsgLoadedEmpty == "The collection is empty."
MsgLlmError == "Error generating query with LLM"
MsgGenerated == "Generated MongoDB Query"
MsgFailed == "Failed to generate a query. Please try again."
MsgNotDict == "Error: Generated MongoDB query is not a valid dictionary."
MsgRetrieved == "Retrieved Data"
MsgSaved == "Data saved"
MsgInvalid == "Invalid output format or filename provided."
MsgNoData == "No data found matching the query."
MsgRetrieveError == "Error retrieving data from MongoDB"

Printed(m) == \E i \in 1..Len(printed) : printed[i] = m

\* the locals of one question or call before they are assigned
Fresh ==
  /\ raw_response = <<>> /\ cleaned = <<>>
  /\ fix_arg = None /\ raw_query = None /\ steps = <<>> /\ fix_ret = None
  /\ fix_caller = "none"
  /\ generated_query = None
  /\ output_choice = <<>> /\ output_filename = None /\ mongodb_query = None
  /\ query = None /\ results = "unset"
  /\ printed = <<>> /\ find_calls = <<>> /\ saved = <<>> /\ logged = <<>>
  /\ raised = "none"

\* main()
InitMain ==
  /\ Fresh
  /\ pc = "main" /\ entry = "main"
  /\ questions = 0 /\ user_question = <<>>

\* fix_llm_query(raw_query) called with any argument
InitFix ==
  /\ pc = "fix" /\ entry = "fix"
  /\ questions = 0 /\ user_question = <<>>
  /\ raw_response = <<>> /\ cleaned = <<>>
  /\ raw_query \in Arguments /\ fix_arg = raw_query
  /\ steps = <<>> /\ fix_ret = None /\ fix_caller = "top"
  /\ generated_query = None
  /\ output_choice = <<>> /\ output_filename = None /\ mongodb_query = None
  /\ query = None /\ results = "unset"
  /\ printed = <<>> /\ find_calls = <<>> /\ saved = <<>> /\ logged = <<>>
  /\ raised = "none"

\* retrieve_and_present_data(..., mongodb_query, output_format,
\* output_filename) called with any arguments
InitRetrieve ==
  /\ pc = "retrieve" /\ entry = "retrieve"
  /\ questions = 0 /\ user_question = <<>>
  /\ raw_response = <<>> /\ cleaned = <<>>
  /\ fix_arg = None /\ raw_query = None /\ steps = <<>> /\ fix_ret = None
  /\ fix_caller = "none"
  /\ generated_query = None
  /\ mongodb_query \in Arguments
  /\ output_choice \in Formats
  /\ output_filename \in Filenames
  /\ query = None /\ results = "unset"
  /\ printed = <<>> /\ find_calls = <<>> /\ saved = <<>> /\ logged = <<>>
  /\ raised = "none"

Init == InitMain \/ InitFix \/ InitRetrieve

(***************************************************************************)
(* fix_llm_query, lines 38-69                                              *)
(***************************************************************************)
\* FixDict without the isinstance test on the value of the find key
FixDictAnyFind ==
  /\ pc = "fix" /\ IsDict(raw_query)
  /\ fix_ret' = IF HasKey(raw_query, FindKey)
                THEN Get(raw_query, FindKey)
                ELSE raw_query
  /\ steps' = Append(steps, "dict")
  /\ pc' = "fix_return"
  /\ UNCHANGED <<fix_arg, raw_query, fix_caller, mainVars, genVars, callVars,
                 retrieveVars, printed, effectVars, raised>>

\* lines 43-47: a dict argument
FixDict ==
  /\ pc = "fix" /\ IsDict(raw_query)
  /\ fix_ret' = IF HasKey(raw_query, FindKey) /\ IsDict(Get(raw_query, FindKey))
                THEN Get(raw_query, FindKey)
                ELSE raw_query
  /\ steps' = Append(steps, "dict")
  /\ pc' = "fix_return"
  /\ UNCHANGED <<fix_arg, raw_query, fix_caller, mainVars, genVars, callVars,
                 retrieveVars, printed, effectVars, raised>>

\* line 69 for an argument that is neither a dict nor a str
FixOther ==
  /\ pc = "fix" /\ ~IsDict(raw_query) /\ ~IsStr(raw_query)
  /\ fix_ret' = raw_query
  /\ steps' = Append(steps, "other")
  /\ pc' = "fix_return"
  /\ UNCHANGED <<fix_arg, raw_query, fix_caller, mainVars, genVars, callVars,
                 retrieveVars, printed, effectVars, raised>>

\* one text repair of the str branch
FixText(at, step, text, next) ==
  /\ pc = at
  /\ raw_query' = Str(text)
  /\ steps' = Append(steps, step)
  /\ pc' = next
  /\ UNCHANGED <<fix_arg, fix_ret, fix_caller, mainVars, genVars, callVars,
                 retrieveVars, printed, effectVars, raised>>

\* lines 48-52
FixUnwrap ==
  /\ IsStr(raw_query)
  /\ FixText("fix", "unwrap", Unwrap(raw_query.s), "fix_comma")

\* line 54
FixCommaColon ==
  FixText("fix_comma", "comma", CommaFix(raw_query.s), "fix_trailing")

\* line 56
FixTrailingComma ==
  FixText("fix_trailing", "trailing", TrailingCommaStrip(raw_query.s),
          "fix_newline")

\* line 58
FixNewlines ==
  FixText("fix_newline", "newline", Flatten(raw_query.s), "fix_json")

\* lines 60-63: return the strict parse, or go on when it raises
FixJson ==
  /\ pc = "fix_json"
  /\ steps' = Append(steps, "json")
  /\ IF JsonLoads(raw_query.s).ok
     THEN /\ fix_ret' = JsonLoads(raw_query.s).v
          /\ pc' = "fix_return"
     ELSE /\ fix_ret' = fix_ret
          /\ pc' = "fix_eval"
  /\ UNCHANGED <<fix_arg, raw_query, fix_caller, mainVars, genVars, callVars,
                 retrieveVars, printed, effectVars, raised>>

\* lines 65-69: return what eval gives; when it raises an Exception return
\* the working text.  SystemExit is not an Exception: it leaves
\* fix_llm_query, and neither generate_mongodb_query (line 99) nor
\* retrieve_and_present_data (line 143) nor main catches it.
FixEval ==
  /\ pc = "fix_eval"
  /\ steps' = Append(steps, "eval")
  /\ LET r == Eval(raw_query.s)
     IN CASE r.st = "ok" ->
               /\ fix_ret' = r.v /\ pc' = "fix_return" /\ raised' = raised
          [] r.st = "exit" ->
               /\ fix_ret' = fix_ret /\ pc' = "done"
               /\ raised' = "SystemExit"
          [] OTHER ->
               /\ fix_ret' = raw_query /\ pc' = "fix_return"
               /\ raised' = raised
  /\ UNCHANGED <<fix_arg, raw_query, fix_caller, mainVars, genVars, callVars,
                 retrieveVars, printed, effectVars>>

\* the return statement: line 98 or line 113 receives the value
FixReturn ==
  /\ pc = "fix_return"
  /\ CASE fix_caller = "generate" ->
            /\ generated_query' = fix_ret /\ query' = query /\ pc' = "check"
       [] fix_caller = "retrieve" ->
            /\ generated_query' = generated_query /\ query' = fix_ret
            /\ pc' = "validate"
       [] OTHER ->
            /\ generated_query' = generated_query /\ query' = query
            /\ pc' = "done"
  /\ UNCHANGED <<fixVars, mainVars, raw_response, cleaned, callVars, results,
                 printed, effectVars, raised>>

(***************************************************************************)
(* generate_mongodb_query, lines 72-101                                    *)
(***************************************************************************)
\* lines 74-85 and 99-101: llm.invoke answers, or raises and None is returned
Generate ==
  /\ pc = "generate"
  /\ \/ \E r \in Responses :
          /\ raw_response' = strip(r)
          /\ pc' = "extract"
          /\ UNCHANGED <<generated_query, printed>>
     \/ /\ printed' = Append(printed, MsgLlmError)
        /\ generated_query' = None
        /\ pc' = "check"
        /\ UNCHANGED raw_response
  /\ UNCHANGED <<mainVars, cleaned, fixVars, callVars, retrieveVars,
                 effectVars, raised>>

\* lines 87-97: extract the fragment and call fix_llm_query(cleaned)
ExtractFragment ==
  /\ pc = "extract"
  /\ cleaned' = Extract(raw_response)
  /\ fix_arg' = Str(cleaned')
  /\ raw_query' = Str(cleaned')
  /\ steps' = <<>>
  /\ fix_ret' = None
  /\ fix_caller' = "generate"
  /\ pc' = "fix"
  /\ UNCHANGED <<mainVars, raw_response, generated_query, callVars,
                 retrieveVars, printed, effectVars, raised>>

(***************************************************************************)
(* retrieve_and_present_data, lines 104-148                                *)
(***************************************************************************)
\* lines 106-115: a str argument is repaired again
RetrieveEnter ==
  /\ pc = "retrieve"
  /\ IF IsStr(mongodb_query)
     THEN /\ fix_arg' = mongodb_query
          /\ raw_query' = mongodb_query
          /\ steps' = <<>>
          /\ fix_ret' = None
          /\ fix_caller' = "retrieve"
          /\ pc' = "fix"
          /\ query' = query
     ELSE /\ query' = mongodb_query
          /\ pc' = "validate"
          /\ UNCHANGED fixVars
  /\ UNCHANGED <<mainVars, genVars, callVars, results, printed, effectVars,
                 raised>>

\* Validate without the isinstance test of line 117
ValidateAnything ==
  /\ pc = "validate"
  /\ printed' = printed
  /\ pc' = "find"
  /\ UNCHANGED <<mainVars, genVars, fixVars, callVars, retrieveVars,
                 effectVars, raised>>

\* lines 117-119
Validate ==
  /\ pc = "validate"
  /\ IF ~IsDict(query)
     THEN /\ printed' = Append(printed, MsgNotDict)
          /\ pc' = "retrieve_return"
     ELSE /\ printed' = printed
          /\ pc' = "find"
  /\ UNCHANGED <<mainVars, genVars, fixVars, callVars, retrieveVars,
                 effectVars, raised>>

\* lines 121 and 143-145: collection.find(query) gives documents, gives
\* none, or raises
Find ==
  /\ pc = "find"
  /\ find_calls' = Append(find_calls, query)
  /\ \/ /\ results' \in {"rows", "empty"}
        /\ pc' = "present"
        /\ printed' = printed
     \/ /\ results' = "raise"
        /\ printed' = Append(printed, MsgRetrieveError)
        /\ pc' = "retrieve_return"
  /\ UNCHANGED <<mainVars, genVars, fixVars, callVars, query, saved, logged,
                 raised>>

\* lines 123-145: the mode is looked at only when there are documents;
\* to_csv can raise, which line 143 catches
Present ==
  /\ pc = "present"
  /\ pc' = "retrieve_return"
  /\ IF results = "rows"
     THEN IF output_choice = DisplayWord
          THEN /\ printed' = printed \o <<MsgRetrieved, "table">>
               /\ saved' = saved
          ELSE IF output_choice = SaveWord /\ Truthy(output_filename)
          THEN \/ /\ saved' = Append(saved, output_filename)
                  /\ printed' = printed \o <<MsgRetrieved, MsgSaved>>
               \/ /\ saved' = saved
                  /\ printed' = printed \o <<MsgRetrieved, MsgRetrieveError>>
          ELSE /\ printed' = printed \o <<MsgRetrieved, MsgInvalid>>
               /\ saved' = saved
     ELSE /\ printed' = Append(printed, MsgNoData)
          /\ saved' = saved
  /\ UNCHANGED <<mainVars, genVars, fixVars, callVars, retrieveVars,
                 find_calls, logged, raised>>

\* lines 146-148: close the client and return to line 182 of main or to the
\* caller
RetrieveReturn ==
  /\ pc = "retrieve_return"
  /\ pc' = IF entry = "main" THEN "prompt" ELSE "done"
  /\ UNCHANGED <<mainVars, genVars, fixVars, callVars, retrieveVars, printed,
                 effectVars, raised>>

(***************************************************************************)
(* main, lines 151-188                                                     *)
(***************************************************************************)
\* lines 152-160 and 185-188: the loop starts when find_one gives a
\* document; without one main reports the empty collection and ends; the
\* call of find_one is outside any try, so a storage failure leaves main
MainStart ==
  /\ pc = "main"
  /\ \/ /\ pc' = "prompt"
        /\ UNCHANGED <<printed, raised>>
     \/ /\ pc' = "done"
        /\ printed' = Append(printed, MsgLoadedEmpty)
        /\ raised' = raised
     \/ /\ pc' = "done"
        /\ printed' = printed
        /\ raised' = "PyMongoError"
  /\ UNCHANGED <<mainVars, genVars, fixVars, callVars, retrieveVars,
                 effectVars>>

\* lines 165-170: read a question; 'exit' in any case ends the loop
ReadQuestion ==
  /\ pc = "prompt"
  /\ \E q \in UserQuestions :
       /\ questions < MaxQuestions \/ Lower(q) = ExitWord
       /\ user_question' = q
       /\ IF Lower(q) = ExitWord
          THEN pc' = "done" /\ questions' = questions
          ELSE pc' = "generate" /\ questions' = questions + 1
  /\ raw_response' = <<>> /\ cleaned' = <<>>
  /\ fix_arg' = None /\ raw_query' = None /\ steps' = <<>> /\ fix_ret' = None
  /\ fix_caller' = "none"
  /\ generated_query' = None
  /\ output_choice' = <<>> /\ output_filename' = None /\ mongodb_query' = None
  /\ query' = None /\ results' = "unset"
  /\ printed' = <<>> /\ find_calls' = <<>> /\ saved' = <<>> /\ logged' = <<>>
  /\ UNCHANGED <<entry, raised>>

\* lines 171-172 and 183-184: the truth value of the generated query decides
CheckGenerated ==
  /\ pc = "check"
  /\ IF Truthy(generated_query)
     THEN /\ printed' = Append(printed, MsgGenerated)
          /\ pc' = "log"
     ELSE /\ printed' = Append(printed, MsgFailed)
          /\ pc' = "prompt"
  /\ UNCHANGED <<mainVars, genVars, fixVars, callVars, retrieveVars,
                 effectVars, raised>>

\* lines 173-175: append to the log; open and write are not inside a try,
\* so an OSError leaves main
WriteLog ==
  /\ pc = "log"
  /\ \/ /\ logged' = Append(logged, <<user_question, generated_query>>)
        /\ pc' = "choose"
        /\ raised' = raised
     \/ /\ logged' = logged
        /\ pc' = "done"
        /\ raised' = "OSError"
  /\ UNCHANGED <<mainVars, genVars, fixVars, callVars, retrieveVars, printed,
                 find_calls, saved>>

\* lines 177-182: read the format and, for save, the filename, and call
\* retrieve_and_present_data
ChooseOutput ==
  /\ pc = "choose"
  /\ \E c \in UserChoices, f \in UserFilenames :
       /\ output_choice' = Lower(c)
       /\ output_filename' = IF Lower(c) = SaveWord THEN Str(f) ELSE None
  /\ mongodb_query' = generated_query
  /\ pc' = "retrieve"
  /\ UNCHANGED <<mainVars, genVars, fixVars, retrieveVars, printed,
                 effectVars, raised>>

Next ==
  \/ FixDict \/ FixOther \/ FixUnwrap \/ FixCommaColon \/ FixTrailingComma
  \/ FixNewlines \/ FixJson \/ FixEval \/ FixReturn
  \/ Generate \/ ExtractFragment
  \/ RetrieveEnter \/ Validate \/ Find \/ Present \/ RetrieveReturn
  \/ MainStart \/ ReadQuestion \/ CheckGenerated \/ WriteLog \/ ChooseOutput

Spec == Init /\ [][Next]_vars

(***************************************************************************)
(* Properties                                                              *)
(***************************************************************************)
\* C1: collection.find is only ever called with a dict, and a call of
\* retrieve_and_present_data whose query (repaired again when it is a str)
\* is not a dict returns without a call of find.
FindOnlyWithMapping ==
  /\ \A i \in 1..Len(find_calls) : IsDict(find_calls[i])
  /\ pc \in {"find", "present"} => IsDict(query)
  /\ (pc = "retrieve_return" /\ ~IsDict(query)) => find_calls = <<>>

\* a question of the loop whose repaired query is a str that is still no
\* dict after the second repair has been rejected
FindOnlyWithMappingWitness ==
  /\ entry = "main" /\ pc = "retrieve_return"
  /\ IsStr(mongodb_query) /\ ~IsDict(query)
  /\ Printed(MsgNotDict)

\* C2: once the loop has read a question, main ends only when the user
\* has typed 'exit' in any case: a failure of the generator, of the
\* storage, of the validation, of the output mode or of the log append
\* does not end it.  (The SystemExit that eval can raise, see C6 and C9, is
\* left aside here.)
LoopEndsOnlyOnExit ==
  (entry = "main" /\ pc = "done" /\ user_question # <<>>
     /\ raised # "SystemExit")
    => (Lower(user_question) = ExitWord /\ raised = "none")

\* C3: when the extracted and repaired value of a question is not a dict,
\* the 'Failed to generate a query' message has been printed by the time the
\* next question is prompted for.
NonMappingReportsFailed ==
  (entry = "main" /\ pc = "prompt" /\ fix_arg # None
     /\ ~IsDict(generated_query))
    => Printed(MsgFailed)

\* C4: when the extracted and repaired value of a question is a dict, the
\* empty dict included, and the storage answers, find has been called with
\* exactly that dict and no failure to generate a query is reported.
MappingIsExecuted ==
  (entry = "main" /\ pc = "prompt" /\ fix_arg # None
     /\ IsDict(generated_query) /\ results # "raise")
    => (find_calls = <<generated_query>> /\ ~Printed(MsgFailed))

\* C5: a dict returned by fix_llm_query has no key 'find' whose value is a
\* dict.
NeverWrappedInFind ==
  (pc = "fix_return" /\ IsDict(fix_ret))
    => ~(HasKey(fix_ret, FindKey) /\ IsDict(Get(fix_ret, FindKey)))

\* the names a text mentions outside its string literals, from index i on;
\* q is the quote of the literal that i is inside of, or "" outside
RECURSIVE NamesFrom(_, _, _)
NamesFrom(s, i, q) ==
  IF i > Len(s) THEN {}
  ELSE IF q # "" THEN NamesFrom(s, i + 1, IF s[i] = q THEN "" ELSE q)
  ELSE IF s[i] \in Quotes THEN NamesFrom(s, i + 1, s[i])
  ELSE IF s[i] \in Letters
  THEN {SubSeq(s, i, SkipWord(s, i) - 1)} \cup NamesFrom(s, SkipWord(s, i), "")
  ELSE IF s[i] \in Digits THEN NamesFrom(s, SkipWord(s, i), "")
  ELSE NamesFrom(s, i + 1, "")

\* the text refers to a name that is not one of the literal constants
RefersToName(s) ==
  NamesFrom(s, 1, "") \ {TrueName, FalseName, NoneName} # {}

EvalRan == steps # <<>> /\ steps[Len(steps)] = "eval"

\* C6: when the permissive parse runs on a working text that refers to a
\* name or calls a function, nothing is raised out of fix_llm_query and the
\* working text is what it returns.
EvalOnlyLiterals ==
  (EvalRan /\ RefersToName(raw_query.s))
    => (raised # "SystemExit" /\ fix_ret = raw_query)

\* the mode is neither display nor save, or it is save without a filename
InvalidMode ==
  \/ output_choice \notin {DisplayWord, SaveWord}
  \/ output_choice = SaveWord /\ ~Truthy(output_filename)

\* C7: when the mode is invalid, retrieve_and_present_data has reported
\* the invalid output and written nothing by the time it returns, whether
\* find gave documents or none.
InvalidModeReported ==
  (pc = "retrieve_return" /\ results \in {"rows", "empty"} /\ InvalidMode)
    => (Printed(MsgInvalid) /\ saved = <<>>)

\* the fragment C8 describes: the inside of the first fenced block (after
\* an optional json tag and whitespace); else the span from the first '{'
\* to the last '}' when the last '}' comes after the first '{'; else the
\* whole text
DescribedFenceStart(s) ==
  LET p == FirstFenceFrom(s, 1)
  IN IF p = 0 THEN 0
     ELSE SkipWs(s, IF StartsWithAt(s, p + 3, JsonTag) THEN p + 7 ELSE p + 3)
DescribedExtract(s) ==
  LET b == DescribedFenceStart(s)
      opens == IndicesOf(s, "{")
      closes == IndicesOf(s, "}")
  IN IF b # 0 /\ FirstFenceFrom(s, b) # 0
     THEN SubSeq(s, b, FirstFenceFrom(s, b) - 1)
     ELSE IF opens # {} /\ closes # {} /\ Min(opens) < Max(closes)
     THEN SubSeq(s, Min(opens), Max(closes))
     ELSE s

\* C8: the fragment handed to fix_llm_query is the one the precedence
\* fenced block, brace span, whole text gives.
ExtractorPrecedence ==
  (pc = "fix" /\ fix_caller = "generate")
    => cleaned = DescribedExtract(raw_response)

\* the working text of a str argument after the four repairs in order
Repaired(s) == Flatten(TrailingCommaStrip(CommaFix(Unwrap(s))))

\* C9: for a str argument the statements run in the order unwrap, comma,
\* trailing comma, line breaks, strict parse and then, only when the strict
\* parse failed, permissive parse; the value of the first parse that
\* succeeds is returned, the working text when none does, and nothing is
\* raised.
FixTextOrder ==
  (IsStr(fix_arg) /\ (pc = "fix_return" \/ raised = "SystemExit"))
    => LET w == Repaired(fix_arg.s)
       IN /\ raised = "none"
          /\ raw_query = Str(w)
          /\ IF JsonLoads(w).ok
             THEN /\ steps = <<"unwrap", "comma", "trailing", "newline",
                               "json">>
                  /\ fix_ret = JsonLoads(w).v
             ELSE /\ steps = <<"unwrap", "comma", "trailing", "newline",
                               "json", "eval">>
                  /\ fix_ret = IF Eval(w).st = "ok" THEN Eval(w).v
                               ELSE Str(w)

\* what C10 says fix_llm_query returns for the dict m
Unwrapped(m) ==
  IF \E i \in 1..Len(m.kv) : m.kv[i][1] = FindKey /\ m.kv[i][2].t = "dict"
  THEN m.kv[CHOOSE i \in 1..Len(m.kv) : m.kv[i][1] = FindKey][2]
  ELSE m

\* C10: for a dict argument m fix_llm_query returns the value of the key
\* 'find' when that value is a dict and m itself otherwise, and m is left
\* as it was.
FixMappingResult ==
  (IsDict(fix_arg) /\ pc \in {"fix_return", "done"})
    => (fix_ret = Unwrapped(fix_arg) /\ raw_query = fix_arg
        /\ raised = "none")

\* a dict whose find key holds a dict has been unwrapped, and a dict whose
\* find key holds no dict has been returned whole
FixMappingResultWitness ==
  /\ entry = "fix" /\ pc = "done" /\ IsDict(fix_arg)
  /\ HasKey(fix_arg, FindKey)
  /\ fix_ret = IF IsDict(Get(fix_arg, FindKey)) THEN Dict(<<A1>>) ELSE fix_arg
  /\ Len(fix_arg.kv) = 1

====
